---------------------------- MODULE Spec2Model ----------------------------
(***************************************************************************)
(* A model of adt.py: algebraic data types (sum types with constrained     *)
(* variants), the structural matcher, the binding extractor and the        *)
(* ordered case dispatcher (MatchCases).                                   *)
(*                                                                         *)
(* Python values are tagged records:                                       *)
(*   [k |-> "int", n]            an int                                    *)
(*   [k |-> "str", s]            a str                                     *)
(*   [k |-> "Binding", s]        adt.Binding (a str subclass)              *)
(*   [k |-> "BindingRest", s]    adt.BindingRest (a Binding subclass)      *)
(*   [k |-> "class", c]          a class object (sum type or variant)      *)
(*   [k |-> "adt", c, items]     an instance of variant c (a namedtuple)   *)
(*   [k |-> "list", items]       a list / tuple                            *)
(*   [k |-> "dict", ordered, entries]  a dict (ordered: an OrderedDict);   *)
(*                               entries are <<key, value>> in insertion   *)
(*                               order                                     *)
(*   [k |-> "regex", parts]      a compiled regular expression             *)
(*   [k |-> "generator", items]  the generator a rest-binding captures     *)
(*   [k |-> "object", c]         a plain object of class c                 *)
(* A field name holds values of one shape in every record that has it      *)
(* (items: a sequence of values, entries: a sequence of pairs, ...), so    *)
(* that any two values can be compared.                                    *)
(***************************************************************************)
EXTENDS Integers, Sequences, FiniteSets, TLC

VARIABLES
    declared,     \* the classes whose class statement has run
    variants,     \* sum type -> its _variants list
    fields,       \* variant -> its _fields (the namedtuple's field names)
    constraints,  \* variant -> its _constraints, parallel to fields
    instance,     \* class -> the object in its own _instance attribute (0: none)
    objects,      \* the objects Singleton.__new__ has created: id -> class
    returned,     \* history: class -> the objects its constructor calls returned
    cases,        \* the _cases of the MatchCases subclass defined so far
    pc,           \* the caller: "ready" to call, or "done" with a call's outcome
    call,         \* the call that has just returned
    outcome       \* what it returned or raised

vars == <<declared, variants, fields, constraints, instance, objects,
          returned, cases, pc, call, outcome>>

(***************************************************************************)
(* Python values                                                           *)
(***************************************************************************)
IntV(n) == [k |-> "int", n |-> n]
StrV(s) == [k |-> "str", s |-> s]
Binding(s) == [k |-> "Binding", s |-> s]
BindingRest(s) == [k |-> "BindingRest", s |-> s]
Class(c) == [k |-> "class", c |-> c]
Inst(c, items) == [k |-> "adt", c |-> c, items |-> items]
ListV(items) == [k |-> "list", items |-> items]
Dict(items) == [k |-> "dict", ordered |-> FALSE, entries |-> items]
OrderedDict(items) == [k |-> "dict", ordered |-> TRUE, entries |-> items]
Regex(parts) == [k |-> "regex", parts |-> parts]
Generator(items) == [k |-> "generator", items |-> items]
Object(c) == [k |-> "object", c |-> c]

\* sentinel = object(): a fresh object that is no element of any value
sentinel == Object("sentinel")

\* isinstance(v, Binding): Binding and its subclass BindingRest
IsBinding(v) == v.k \in {"Binding", "BindingRest"}
\* isinstance(v, BindingRest)
IsBindingRest(v) == v.k = "BindingRest"
\* isinstance(v, str): str and its subclasses
IsStr(v) == v.k \in {"str", "Binding", "BindingRest"}

(***************************************************************************)
(* The class statements of the modelled program: the sum type List with    *)
(* the variants Nil and Cons of the end-to-end scenario, a variant Sub     *)
(* declared with base Cons, and a second sum type Tree with the variant    *)
(* Leaf.                                                                   *)
(***************************************************************************)
Anything == [c |-> "Anything"]
Require(dtype) == [c |-> "Require", dtype |-> dtype]

SumTypes == {"List", "Tree"}
VariantNames == {"Nil", "Cons", "Sub", "Leaf"}
ClassNames == SumTypes \cup VariantNames

\* bases[0] of each class statement
Base(c) ==
    CASE c \in SumTypes -> "ADT"
      [] c = "Leaf" -> "Tree"
      [] c = "Nil" -> "List"
      [] c = "Cons" -> "List"
      [] c = "Sub" -> "Cons"

\* the class body: the attributes assigned a Constraint expression, in order
ClassBody(c) ==
    CASE c = "Nil" -> <<>>
      [] c = "Cons" -> << <<"head", Anything>>, <<"tail", Require("List")>> >>
      [] c = "Sub" -> << <<"extra", Require("int")>> >>
      [] OTHER -> <<>>

\* the classes issubclass(c, .) holds for, among the modelled ones
RECURSIVE Ancestors(_)
Ancestors(c) ==
    IF c \in ClassNames THEN {c} \cup Ancestors(Base(c)) ELSE {c}

\* cls._variants with a single list kept on the base class ADT and shared by
\* every sum type.  The faulty variant C12_VariantLists is checked against.
SumTypeOf_shared(c) == "List"

\* the sum type whose _variants list the attribute lookup cls._variants finds
RECURSIVE SumTypeOf(_)
SumTypeOf(c) == IF c \in SumTypes THEN c ELSE SumTypeOf(Base(c))

(***************************************************************************)
(* Singleton (adt.py 22-29)                                                *)
(***************************************************************************)
\* the classes built on the Singleton mix-in, and Singleton itself
SingletonClasses == {"Singleton", "Anything", "BindingExtractor"} \cup VariantNames

\* cls._instance: the attribute lookup walks cls.__mro__, so it finds the
\* class's own _instance first and then the one set on Singleton itself
Lookup_instance(inst, cls) ==
    IF inst[cls] # 0 THEN inst[cls]
    ELSE IF inst["Singleton"] # 0 THEN inst["Singleton"]
    ELSE 0

\* Singleton.__new__ without the lookup of cls._instance: every call creates
\* an object.  The faulty variant C10_Singleton is checked against.
Singleton_new_fresh(inst, objs, cls) ==
    [instance |-> [inst EXCEPT ![cls] = Len(objs) + 1],
     objects |-> Append(objs, cls),
     id |-> Len(objs) + 1]

\* Singleton.__new__(cls): [instance, objects] afterwards and the id returned
Singleton_new(inst, objs, cls) ==
    LET found == Lookup_instance(inst, cls) IN
    IF found # 0
    THEN [instance |-> inst, objects |-> objs, id |-> found]
    ELSE [instance |-> [inst EXCEPT ![cls] = Len(objs) + 1],
          objects |-> Append(objs, cls),
          id |-> Len(objs) + 1]

\* the Python value an object created by Singleton.__new__ is
ObjectValue(objs, id) ==
    IF objs[id] \in VariantNames THEN Inst(objs[id], <<>>) ELSE Object(objs[id])

(***************************************************************************)
(* Constraints (adt.py 31-45) and isinstance                               *)
(***************************************************************************)
\* isinstance(v, dtype) for the types the class bodies name
IsInstance(v, dtype) ==
    CASE dtype = "int" -> v.k = "int"
      [] dtype = "str" -> IsStr(v)
      [] OTHER -> v.k = "adt" /\ dtype \in Ancestors(v.c)

\* Require.check with type(value) is dtype in place of isinstance: a value of
\* a subtype is refused.  The faulty variant C9_ConstraintCheck is checked
\* against.
Constraint_check_exact(constraint, value) ==
    IF constraint = Anything THEN TRUE
    ELSE value.k = "int" /\ constraint.dtype = "int"

\* constraint.check(value): TRUE when it returns, FALSE when it raises TypeError
Constraint_check(constraint, value) ==
    IF constraint = Anything THEN TRUE
    ELSE IsInstance(value, constraint.dtype)

(***************************************************************************)
(* Outcomes of a call                                                      *)
(***************************************************************************)
NoCall == [op |-> "none"]
NoOutcome == [st |-> "none"]
Returned(v) == [st |-> "return", value |-> v]
Raised(exc, msg) == [st |-> "raise", exc |-> exc, msg |-> msg]

(***************************************************************************)
(* The values that exist in the current state: an instance of a variant    *)
(* exists when its constructor call returns it.                            *)
(***************************************************************************)
RECURSIVE Exists(_)
Exists(v) ==
    CASE v.k = "adt" ->
            /\ v.c \in declared \cap VariantNames
            /\ Len(v.items) = Len(fields[v.c])
            /\ Len(v.items) = 0 => instance[v.c] # 0
            /\ \A i \in 1..Len(v.items) :
                /\ Exists(v.items[i])
                /\ IF IsBinding(v.items[i]) THEN TRUE
                   ELSE Constraint_check(constraints[v.c][i], v.items[i])
      [] v.k = "class" -> v.c \in declared
      [] v.k = "object" -> instance[v.c] # 0
      [] v.k = "list" -> \A i \in 1..Len(v.items) : Exists(v.items[i])
      [] v.k = "dict" ->
            \A i \in 1..Len(v.entries) : Exists(v.entries[i][1]) /\ Exists(v.entries[i][2])
      [] OTHER -> TRUE

(***************************************************************************)
(* Class statements (adt.py 47-81)                                         *)
(***************************************************************************)
\* AlgebraicMeta.__new__ for a class statement with bases[0] = ADT:
\* a generic (sum) type gets a _variants list of its own
DeclareSumType(c) ==
    /\ pc = "ready"
    /\ c \in SumTypes \ declared
    /\ declared' = declared \cup {c}
    /\ variants' = [variants EXCEPT ![c] = <<>>]
    /\ UNCHANGED <<fields, constraints, instance, objects, returned, cases,
                   pc, call, outcome>>

\* The class statement of a variant: the class body is evaluated (Anything()
\* goes through Singleton.__new__), then AlgebraicMeta.__new__ keeps as fields
\* the attributes whose value is a Constraint, makes the class a Singleton when
\* it has no field, and appends it to the _variants list it inherits.
DeclareVariant(c) ==
    /\ pc = "ready"
    /\ c \in VariantNames \ declared
    /\ Base(c) \in declared
    /\ LET body == ClassBody(c)
           callsAnything == \E i \in 1..Len(body) : body[i][2] = Anything
           s == IF callsAnything
                THEN Singleton_new(instance, objects, "Anything")
                ELSE [instance |-> instance, objects |-> objects, id |-> 0]
           isConstraint(e) ==
               IF e = Anything THEN s.objects[s.id] = "Anything" ELSE TRUE
           kept == SelectSeq(body, LAMBDA kv : isConstraint(kv[2]))
       IN  /\ fields' = [fields EXCEPT ![c] = [i \in 1..Len(kept) |-> kept[i][1]]]
           /\ constraints' =
                 [constraints EXCEPT ![c] = [i \in 1..Len(kept) |-> kept[i][2]]]
           /\ instance' = s.instance
           /\ objects' = s.objects
    /\ declared' = declared \cup {c}
    /\ variants' = [variants EXCEPT ![SumTypeOf(c)] = Append(@, c)]
    /\ UNCHANGED <<returned, cases, pc, call, outcome>>

(***************************************************************************)
(* Construction (adt.py 22-29, 83-98)                                      *)
(***************************************************************************)
\* Singleton(), Anything(), BindingExtractor() called directly
NewSingleton(c) ==
    /\ pc = "ready"
    /\ c \in {"Singleton", "Anything", "BindingExtractor"}
    /\ LET s == Singleton_new(instance, objects, c) IN
        /\ instance' = s.instance
        /\ objects' = s.objects
        /\ returned' = [returned EXCEPT ![c] = @ \cup {s.id}]
        /\ call' = [op |-> "new", cls |-> c, args |-> <<>>]
        /\ outcome' = [st |-> "return", value |-> ObjectValue(s.objects, s.id),
                       id |-> s.id]
    /\ pc' = "done"
    /\ UNCHANGED <<declared, variants, fields, constraints, cases>>

\* ADT.__init__: the index of the first field whose value is no Binding and
\* fails its constraint's check, 0 when every field passes
RECURSIVE ADT_init(_, _, _)
ADT_init(cls, args, i) ==
    IF i > Len(fields[cls]) THEN 0
    ELSE IF IsBinding(args[i]) THEN ADT_init(cls, args, i + 1)
    ELSE IF Constraint_check(constraints[cls][i], args[i])
         THEN ADT_init(cls, args, i + 1)
         ELSE i

\* ADT() or a sum type called: ADT.__new__ raises
ConstructGeneric(c) ==
    /\ pc = "ready"
    /\ c \in declared \cap SumTypes
    /\ call' = [op |-> "new", cls |-> c, args |-> <<>>]
    /\ outcome' = Raised("TypeError", "can't instantiate")
    /\ pc' = "done"
    /\ UNCHANGED <<declared, variants, fields, constraints, instance, objects,
                   returned, cases>>

\* A variant without fields called: Singleton.__new__ comes first in its MRO
ConstructSingleton(c) ==
    /\ pc = "ready"
    /\ c \in declared \cap VariantNames
    /\ Len(fields[c]) = 0
    /\ LET s == Singleton_new(instance, objects, c) IN
        /\ instance' = s.instance
        /\ objects' = s.objects
        /\ returned' = [returned EXCEPT ![c] = @ \cup {s.id}]
        /\ call' = [op |-> "new", cls |-> c, args |-> <<>>]
        /\ outcome' = [st |-> "return", value |-> ObjectValue(s.objects, s.id),
                       id |-> s.id]
    /\ pc' = "done"
    /\ UNCHANGED <<declared, variants, fields, constraints, cases>>

\* A variant with fields called with one value per field: the namedtuple's
\* __new__ builds the tuple and ADT.__init__ checks it
ConstructVariant(c, args) ==
    /\ pc = "ready"
    /\ c \in declared \cap VariantNames
    /\ Len(fields[c]) > 0
    /\ Len(args) = Len(fields[c])
    /\ \A i \in 1..Len(args) : Exists(args[i])
    /\ call' = [op |-> "new", cls |-> c, args |-> args]
    /\ outcome' = IF ADT_init(c, args, 1) = 0
                  THEN Returned(Inst(c, args))
                  ELSE Raised("TypeError", "expected type")
    /\ pc' = "done"
    /\ UNCHANGED <<declared, variants, fields, constraints, instance, objects,
                   returned, cases>>

\* the caller takes the outcome and goes on
Continue ==
    /\ pc = "done"
    /\ pc' = "ready"
    /\ call' = NoCall
    /\ outcome' = NoOutcome
    /\ UNCHANGED <<declared, variants, fields, constraints, instance, objects,
                   returned, cases>>

(***************************************************************************)
(* str and dict operations the matcher relies on                           *)
(***************************************************************************)
\* the characters of the strings of the model, as iterating a str yields them
Chars(s) ==
    CASE s = "" -> <<>>
      [] s = "xy" -> <<"x", "y">>
      [] s = "_u" -> <<"_", "u">>
      [] s = "head" -> <<"h", "e", "a", "d">>
      [] s = "tail" -> <<"t", "a", "i", "l">>
      [] s = "extra" -> <<"e", "x", "t", "r", "a">>
      [] OTHER -> <<s>>

\* ord(c) of the characters dict keys are made of
Ord(c) ==
    CASE c = "_" -> 95
      [] c = "a" -> 97
      [] c = "b" -> 98
      [] c = "k" -> 107
      [] c = "o" -> 111
      [] c = "x" -> 120
      [] c = "y" -> 121
      [] OTHER -> 0

\* s < t for two strs: lexicographic on the code points
RECURSIVE CharsLess(_, _)
CharsLess(a, b) ==
    IF Len(b) = 0 THEN FALSE
    ELSE IF Len(a) = 0 THEN TRUE
    ELSE IF Ord(Head(a)) # Ord(Head(b)) THEN Ord(Head(a)) < Ord(Head(b))
    ELSE CharsLess(Tail(a), Tail(b))

\* x < y for two keys of the same type
KeyLess(x, y) ==
    IF x.k = "int" THEN x.n < y.n ELSE CharsLess(Chars(x.s), Chars(y.s))

\* x < y raises TypeError: an int against a str
Unorderable(keys) ==
    \E i, j \in 1..Len(keys) : (keys[i].k = "int") # (keys[j].k = "int")

\* sorted(keys) for orderable keys
RECURSIVE sorted(_)
sorted(keys) ==
    IF Len(keys) = 0 THEN <<>>
    ELSE LET m == CHOOSE i \in 1..Len(keys) :
                     \A j \in 1..Len(keys) : ~KeyLess(keys[j], keys[i])
             rest == [j \in 1..(Len(keys) - 1) |->
                         IF j < m THEN keys[j] ELSE keys[j + 1]]
         IN  <<keys[m]>> \o sorted(rest)

\* x == y as Python compares a value with a literal pattern
PyEq(x, y) == IF IsStr(x) /\ IsStr(y) THEN x.s = y.s ELSE x = y

\* map.keys() in the dict's own order
Keys(map) == [i \in 1..Len(map.entries) |-> map.entries[i][1]]

\* key in map
HasKey(map, key) == \E i \in 1..Len(map.entries) : PyEq(map.entries[i][1], key)

\* map[key]
GetItem(map, key) ==
    map.entries[CHOOSE i \in 1..Len(map.entries) : PyEq(map.entries[i][1], key)][2]

\* hasattr(v, 'keys') and hasattr(v, 'values')
IsMapLike(v) == v.k = "dict"

\* hasattr(v, '__iter__'): a variant class has the attribute too (it inherits
\* tuple.__iter__ as a function) although iterating the class raises
HasIter(v) ==
    \/ v.k \in {"list", "generator", "dict", "adt"}
    \/ IsStr(v)
    \/ v.k = "class" /\ v.c \in VariantNames

\* the elements iterating v yields
Iter(v) ==
    CASE v.k = "dict" -> Keys(v)
      [] IsStr(v) -> [i \in 1..Len(Chars(v.s)) |-> StrV(Chars(v.s)[i])]
      [] OTHER -> v.items

\* pattern.match(s) of a compiled regular expression: parts are <<group name,
\* character>>, each matching that one character ("" : outside any group)
Regex_match(pattern, s) ==
    /\ Len(Chars(s)) >= Len(pattern.parts)
    /\ \A i \in 1..Len(pattern.parts) : Chars(s)[i] = pattern.parts[i][2]

\* match.groupdict().items() sorted by pattern.groupindex
Regex_groups(pattern) ==
    LET named == SelectSeq(pattern.parts, LAMBDA g : g[1] # "")
    IN  [i \in 1..Len(named) |-> <<named[i][1], StrV(named[i][2])>>]

(***************************************************************************)
(* dispatch (adt.py 128-162): the handler a pattern is routed to.  The     *)
(* program builds no ast nodes, so the two ast branches never apply.       *)
(***************************************************************************)
\* dispatch with the test for str after the tests for a mapping and for an
\* iterable: a string pattern is then a sequence of its characters.  The
\* faulty variant C16_Priority is checked against.
dispatch_iterable_first(pattern) ==
    IF IsBinding(pattern) THEN "binding"
    ELSE IF pattern.k = "class" /\ "ADT" \in Ancestors(pattern.c)
         THEN IF pattern.c \in VariantNames THEN "adt_constructor"
              ELSE "TypeError"
    ELSE IF pattern.k = "adt" THEN "adt_instance"
    ELSE IF IsMapLike(pattern) THEN "mapping"
    ELSE IF HasIter(pattern) THEN "sequence"
    ELSE IF pattern.k = "regex" THEN "regexp"
    ELSE "literal"

dispatch(pattern) ==
    IF IsBinding(pattern) THEN "binding"
    ELSE IF pattern.k = "class" /\ "ADT" \in Ancestors(pattern.c)
         THEN IF pattern.c \in VariantNames THEN "adt_constructor"
              ELSE "TypeError"
    ELSE IF pattern.k = "adt" THEN "adt_instance"
    ELSE IF pattern.k = "regex" THEN "regexp"
    ELSE IF pattern.k = "str" THEN "literal"
    ELSE IF IsMapLike(pattern) THEN "mapping"
    ELSE IF HasIter(pattern) THEN "sequence"
    ELSE "literal"

(***************************************************************************)
(* MatchVisitor (adt.py 234-372).  A handler's result is the bindings it   *)
(* yields, as <<name, value>> pairs in order, or the exception it raises;  *)
(* eager tells whether dispatch itself raised it or the iteration of the   *)
(* iterable it returned.                                                   *)
(***************************************************************************)
Ok(binds) == [st |-> "ok", binds |-> binds]
Fail(exc, msg, eager) ==
    [st |-> "raise", exc |-> exc, msg |-> msg, cause |-> "", eager |-> eager]

\* Binding.bind (adt.py 112-116)
Binding_bind(binding, value) ==
    IF binding.s = "" THEN <<>> ELSE << <<binding.s, value>> >>

Min(a, b) == IF a < b THEN a ELSE b
Max(a, b) == IF a < b THEN b ELSE a

RECURSIVE visit(_, _), recur(_, _), each(_, _, _, _), check(_, _, _, _, _),
          sequence(_, _, _, _), sequence_zip(_, _, _, _)

\* MatchVisitor.recur: only what dispatch itself raises is inside the try
recur(subpattern, subvalue) ==
    LET r == visit(subpattern, subvalue) IN
    IF r.st = "ok" THEN r
    ELSE IF r.exc = "MatchFailed" /\ r.eager
         THEN [st |-> "raise", exc |-> "MatchFailed", msg |-> "didn't match",
               cause |-> r.msg, eager |-> FALSE]
         ELSE [r EXCEPT !.eager = FALSE]

\* adt_instance's chain with only the first field matched.  The faulty
\* variant C5_InstanceNested is checked against.
each_first(ps, vs, i, acc) ==
    IF Min(Len(ps), Len(vs)) = 0 THEN Ok(acc) ELSE recur(ps[1], vs[1])

\* chain.from_iterable(self.recur(p, v) for p, v in zip(ps, vs)), consumed
each(ps, vs, i, acc) ==
    IF i > Min(Len(ps), Len(vs)) THEN Ok(acc)
    ELSE LET r == recur(ps[i], vs[i]) IN
         IF r.st = "ok" THEN each(ps, vs, i + 1, acc \o r.binds) ELSE r

\* chain.from_iterable(check(key) for key in keys), consumed
check(map, value, keys, i, acc) ==
    IF i > Len(keys) THEN Ok(acc)
    ELSE IF ~HasKey(value, keys[i])
         THEN Fail("MatchFailed", "key not in value", FALSE)
    ELSE LET r == recur(GetItem(map, keys[i]), GetItem(value, keys[i])) IN
         IF r.st = "ok" THEN check(map, value, keys, i + 1, acc \o r.binds)
         ELSE r

\* The loop over zip(seq, value) in place of zip_longest: it ends with the
\* shorter of the two.  The faulty variant C6_SequenceDistinctNames is checked
\* against.
sequence_zip(seq, vals, i, acc) ==
    IF i > Min(Len(seq), Len(vals)) THEN Ok(acc)
    ELSE IF IsBindingRest(seq[i])
         THEN Ok(acc \o Binding_bind(seq[i],
                    Generator(SubSeq(vals, i, Len(vals)))))
         ELSE LET r == recur(seq[i], vals[i]) IN
              IF r.st = "ok" THEN sequence_zip(seq, vals, i + 1, acc \o r.binds)
              ELSE r

\* the loop of MatchVisitor.sequence over zip_longest(seq, value), from the
\* i-th pair on
sequence(seq, vals, i, acc) ==
    IF i > Max(Len(seq), Len(vals)) THEN Ok(acc)
    ELSE LET subpattern == IF i <= Len(seq) THEN seq[i] ELSE sentinel
             subvalue == IF i <= Len(vals) THEN vals[i] ELSE sentinel
         IN  IF IsBindingRest(subpattern)
             THEN \* rest(): subvalue, then the values of the pairs left
                  Ok(acc \o Binding_bind(subpattern,
                        Generator(<<subvalue>> \o SubSeq(vals, i + 1, Len(vals)))))
             ELSE IF sentinel \in {subpattern, subvalue}
             THEN Fail("MatchFailed", "different lengths", FALSE)
             ELSE LET r == recur(subpattern, subvalue) IN
                  IF r.st = "ok" THEN sequence(seq, vals, i + 1, acc \o r.binds)
                  ELSE r

\* adt_constructor with type(value) is ctr in place of isinstance.  The
\* faulty variant C4_InstanceOfVariant is checked against.
adt_constructor_exact(ctr, value) ==
    IF ~(value.k = "adt" /\ value.c = ctr.c)
    THEN Fail("MatchFailed", "expected", TRUE)
    ELSE Ok([i \in 1..Len(fields[ctr.c]) |-> <<fields[ctr.c][i], value.items[i]>>])

\* MatchVisitor.adt_constructor
adt_constructor(ctr, value) ==
    IF ~IsInstance(value, ctr.c)
    THEN Fail("MatchFailed", "expected", TRUE)
    ELSE Ok([i \in 1..Min(Len(fields[ctr.c]), Len(value.items)) |->
                <<fields[ctr.c][i], value.items[i]>>])

\* MatchVisitor.adt_instance
adt_instance(pattern, value) ==
    IF ~IsInstance(value, pattern.c)
    THEN Fail("MatchFailed", "expected", TRUE)
    ELSE each(pattern.items, value.items, 1, <<>>)

\* MatchVisitor.regexp
regexp(pattern, value) ==
    IF ~IsStr(value) THEN Fail("TypeError", "expected string", TRUE)
    ELSE IF ~Regex_match(pattern, value.s)
         THEN Fail("MatchFailed", "regex didn't match", TRUE)
         ELSE Ok(Regex_groups(pattern))

\* MatchVisitor.mapping
mapping(map, value) ==
    IF ~IsMapLike(value)
    THEN Fail("MatchFailed", "can't match mapping", TRUE)
    ELSE IF ~map.ordered /\ Unorderable(Keys(map))
         THEN Fail("TypeError", "unorderable types", TRUE)
         ELSE check(map, value,
                    IF map.ordered THEN Keys(map) ELSE sorted(Keys(map)),
                    1, <<>>)

\* MatchVisitor.sequence: a generator, so nothing of it runs inside dispatch
MatchVisitor_sequence(seq, value) ==
    IF ~HasIter(value)
    THEN Fail("MatchFailed", "can't match sequence", FALSE)
    ELSE IF value.k = "class"
         THEN Fail("TypeError", "not iterable", FALSE)
         ELSE sequence(Iter(seq), Iter(value), 1, <<>>)

\* MatchVisitor.literal
literal(pattern, value) ==
    IF ~PyEq(value, pattern)
    THEN Fail("MatchFailed", "didn't match", TRUE)
    ELSE Ok(<<>>)

\* dispatch(pattern, MatchVisitor(value)) and the iteration of its result
visit(pattern, value) ==
    LET handler == dispatch(pattern) IN
    CASE handler = "binding" -> Ok(Binding_bind(pattern, value))
      [] handler = "TypeError" -> Fail("TypeError", "generic type", TRUE)
      [] handler = "adt_constructor" -> adt_constructor(pattern, value)
      [] handler = "adt_instance" -> adt_instance(pattern, value)
      [] handler = "regexp" -> regexp(pattern, value)
      [] handler = "mapping" -> mapping(pattern, value)
      [] handler = "sequence" -> MatchVisitor_sequence(pattern, value)
      [] OTHER -> literal(pattern, value)

(***************************************************************************)
(* match (adt.py 217-232)                                                  *)
(***************************************************************************)
\* names namedtuple() refuses as field names: a leading underscore, a keyword
BadFieldName(name) ==
    \/ Len(Chars(name)) > 0 /\ Chars(name)[1] = "_"
    \/ name \in {"class", "def", "if"}

\* namedtuple('CapturedValues', names) raises ValueError
BadFieldNames(names) ==
    \/ \E i \in 1..Len(names) : BadFieldName(names[i])
    \/ \E i, j \in 1..Len(names) : i # j /\ names[i] = names[j]

Names(binds) == [i \in 1..Len(binds) |-> binds[i][1]]

CapturedValues(binds) == [k |-> "CapturedValues", binds |-> binds]

match(pattern, value) ==
    LET r == visit(pattern, value) IN
    IF r.st = "raise" THEN Raised(r.exc, r.msg)
    ELSE IF BadFieldNames(Names(r.binds))
         THEN Raised("ValueError", "field names")
         ELSE Returned(CapturedValues(r.binds))

(***************************************************************************)
(* BindingExtractor (adt.py 164-215): the names a pattern binds, in order, *)
(* or the exception dispatch raises                                        *)
(***************************************************************************)
RECURSIVE extract(_), extract_each(_, _, _)

\* BindingExtractor.sequence: chain.from_iterable(extract_bindings(v) ...)
extract_each(seq, i, acc) ==
    IF i > Len(seq) THEN Ok(acc)
    ELSE LET r == extract(seq[i]) IN
         IF r.st = "ok" THEN extract_each(seq, i + 1, acc \o r.binds) ELSE r

\* dispatch(pattern, handle) for the BindingExtractor handle, consumed
extract(pattern) ==
    LET handler == dispatch(pattern) IN
    CASE handler = "binding" ->
            Ok(IF pattern.s = "" THEN <<>> ELSE <<pattern.s>>)
      [] handler = "TypeError" -> Fail("TypeError", "generic type", TRUE)
      [] handler = "adt_constructor" -> Ok(fields[pattern.c])
      [] handler = "adt_instance" -> extract_each(pattern.items, 1, <<>>)
      [] handler = "regexp" ->
            Ok(LET g == Regex_groups(pattern) IN [i \in 1..Len(g) |-> g[i][1]])
      [] handler = "mapping" ->
            extract_each([i \in 1..Len(pattern.entries) |-> pattern.entries[i][2]],
                         1, <<>>)
      [] handler = "sequence" -> extract_each(Iter(pattern), 1, <<>>)
      [] OTHER -> Ok(<<>>)

\* tuple(extract_bindings(pattern)) with handle the object BindingExtractor()
\* returned: an object of another class has none of the handler methods
extract_bindings(pattern, handleClass) ==
    LET r == extract(pattern) IN
    IF dispatch(pattern) = "TypeError" THEN r
    ELSE IF handleClass # "BindingExtractor"
         THEN Fail("AttributeError", "no handler method", TRUE)
         ELSE r

(***************************************************************************)
(* MatchCases (adt.py 374-503).  A case of a class statement is            *)
(* [name, argcount, pattern]: the function's name, its co_argcount and the *)
(* annotation of its first argument.  An action returns a record of what   *)
(* it was called with.                                                     *)
(***************************************************************************)
NoCases == [defined |-> FALSE, list |-> <<>>]

\* names that cannot all be parameters of one function
Duplicates(names) == \E i, j \in 1..Len(names) : i # j /\ names[i] = names[j]

\* MatchCasesMeta.fixup_args
fixup_args(case, handleClass) ==
    IF case.argcount # 1
    THEN [st |-> "ok",
          case |-> [name |-> case.name, pattern |-> case.pattern,
                    patch_in_args |-> FALSE, args |-> <<>>]]
    ELSE LET r == extract_bindings(case.pattern, handleClass) IN
         IF r.st = "raise" THEN r
         ELSE IF Len(r.binds) > 0 /\ Duplicates(r.binds)
              THEN Fail("SyntaxError", "duplicate argument", TRUE)
              ELSE [st |-> "ok",
                    case |-> [name |-> case.name, pattern |-> case.pattern,
                              patch_in_args |-> TRUE, args |-> r.binds]]

\* MatchCasesMeta.__init__: the index of the first case fixup_args raises
\* on, 0 when there is none
RECURSIVE FirstBadCase(_, _, _)
FirstBadCase(table, handleClass, i) ==
    IF i > Len(table) THEN 0
    ELSE IF fixup_args(table[i], handleClass).st = "raise" THEN i
    ELSE FirstBadCase(table, handleClass, i + 1)

\* The class statement of a MatchCases subclass
DefineCases(table) ==
    /\ pc = "ready"
    /\ ~cases.defined
    /\ \A i \in 1..Len(table) : Exists(table[i].pattern)
    /\ LET patched == \E i \in 1..Len(table) : table[i].argcount = 1
           s == IF patched
                THEN Singleton_new(instance, objects, "BindingExtractor")
                ELSE [instance |-> instance, objects |-> objects, id |-> 0]
           handleClass == IF patched THEN s.objects[s.id] ELSE "none"
           bad == FirstBadCase(table, handleClass, 1)
       IN  /\ instance' = s.instance
           /\ objects' = s.objects
           /\ call' = [op |-> "class", table |-> table]
           /\ IF bad = 0
              THEN /\ cases' = [defined |-> TRUE,
                                list |-> [i \in 1..Len(table) |->
                                    fixup_args(table[i], handleClass).case]]
                   /\ outcome' = Returned(Object("MatchCases"))
              ELSE /\ cases' = cases
                   /\ outcome' = LET r == fixup_args(table[bad], handleClass)
                                 IN  Raised(r.exc, r.msg)
    /\ pc' = "done"
    /\ UNCHANGED <<declared, variants, fields, constraints, returned>>

\* action(value, **bindings._asdict()) or action(value, bindings)
CallAction(case, value, binds) ==
    IF case.patch_in_args
       /\ {case.args[i] : i \in 1..Len(case.args)}
            # {binds[i][1] : i \in 1..Len(binds)}
    THEN [st |-> "raise", exc |-> "TypeError", msg |-> "arguments",
          invoked |-> <<>>]
    ELSE [st |-> "return",
          value |-> [k |-> "result", by |-> case.name, arg |-> value,
                     bindings |-> binds],
          invoked |-> <<case.name>>]

\* MatchCases.__new__(cls, value): the loop from the i-th case on
RECURSIVE MatchCases_new(_, _, _)
MatchCases_new(list, value, i) ==
    IF i > Len(list)
    THEN [st |-> "raise", exc |-> "CasesExhausted", msg |-> "no case",
          invoked |-> <<>>]
    ELSE LET r == match(list[i].pattern, value) IN
         IF r.st = "return" THEN CallAction(list[i], value, r.value.binds)
         ELSE IF r.exc = "MatchFailed" THEN MatchCases_new(list, value, i + 1)
         ELSE [st |-> "raise", exc |-> r.exc, msg |-> r.msg, invoked |-> <<>>]

\* The dispatcher called on a value
Dispatch(value) ==
    /\ pc = "ready"
    /\ cases.defined
    /\ Exists(value)
    /\ call' = [op |-> "dispatch", value |-> value]
    /\ outcome' = MatchCases_new(cases.list, value, 1)
    /\ pc' = "done"
    /\ UNCHANGED <<declared, variants, fields, constraints, instance, objects,
                   returned, cases>>

\* match(pattern, value) called
Match(pattern, value) ==
    /\ pc = "ready"
    /\ Exists(pattern)
    /\ Exists(value)
    /\ call' = [op |-> "match", pattern |-> pattern, value |-> value]
    /\ outcome' = match(pattern, value)
    /\ pc' = "done"
    /\ UNCHANGED <<declared, variants, fields, constraints, instance, objects,
                   returned, cases>>

(***************************************************************************)
(* Bounds and the inputs of the calls                                      *)
(***************************************************************************)
MaxDepth == 3     \* nesting of the Cons values (patterns: one less)
MaxLen == 3       \* elements of a sequence pattern (values: one more)
MaxKeys == 2      \* keys of a mapping pattern
MaxCases == 2     \* cases of a MatchCases subclass

NilV == Inst("Nil", <<>>)
Cons(head, tail) == Inst("Cons", <<head, tail>>)
Sub(extra) == Inst("Sub", <<extra>>)

\* all sequences over S of length 0..n
RECURSIVE SeqsUpTo(_, _)
SeqsUpTo(S, n) ==
    IF n = 0 THEN {<<>>}
    ELSE LET shorter == SeqsUpTo(S, n - 1)
         IN  shorter \cup {Append(q, x) : q \in shorter, x \in S}

\* values of the sum type List nested up to d deep
RECURSIVE ListValues(_)
ListValues(d) ==
    IF d = 0 THEN {NilV, Sub(IntV(1))}
    ELSE ListValues(d - 1)
           \cup {Cons(h, t) : h \in {IntV(1), IntV(2)}, t \in ListValues(d - 1)}

\* v = Cons(1, Cons(2, Cons(3, Nil))) of the end-to-end scenario
ScenarioValue == Cons(IntV(1), Cons(IntV(2), Cons(IntV(3), NilV)))

\* instance patterns of Cons nested up to d deep
RECURSIVE ConsPatterns(_)
ConsPatterns(d) ==
    IF d = 0 THEN {}
    ELSE {Cons(h, t) :
            h \in {Binding("a"), Binding("b"), Binding(""), IntV(1)},
            t \in {Binding("c"), Binding("a"), NilV} \cup ConsPatterns(d - 1)}

AdtPatterns ==
    ConsPatterns(MaxDepth - 1)
      \cup {Class(c) : c \in ClassNames}
      \cup {Sub(Binding("a")), Sub(IntV(1)), Cons(Binding("_u"), Binding("c")),
            Cons(Regex(<< <<"g", "x">> >>), Binding("c"))}

AdtValues ==
    ListValues(MaxDepth)
      \cup {ScenarioValue, Cons(StrV("x"), NilV), IntV(1), StrV("x"),
            ListV(<<IntV(1), NilV>>), Class("Cons")}

SeqPatterns ==
    {ListV(q) : q \in SeqsUpTo({Binding("a"), Binding("b"), Binding("_u"),
                                 BindingRest("r"), IntV(1)}, MaxLen)}
      \cup {ListV(<<ListV(<<Binding("a")>>), Binding("b")>>),
            ListV(<<Binding("a"), BindingRest("")>>)}

SeqValues ==
    {ListV(q) : q \in SeqsUpTo({IntV(1), IntV(2)}, MaxLen + 1)}
      \cup {ListV(<<ListV(<<IntV(1)>>), IntV(2)>>), StrV("xy"), IntV(1),
            Cons(IntV(1), NilV), Class("Cons"), Class("List"),
            Dict(<< <<StrV("k"), IntV(1)>>, <<StrV("o"), IntV(2)>> >>)}

MapKeys == <<IntV(1), StrV("k"), StrV("o")>>

\* the <<key, value>> sequences with distinct keys, up to n entries, whose
\* values are in S
MapItems(S, n) ==
    {q \in SeqsUpTo({MapKeys[i] : i \in 1..Len(MapKeys)} \X S, n) :
        \A i, j \in 1..Len(q) : i # j => q[i][1] # q[j][1]}

MapPatterns ==
    LET items == MapItems({Binding("a"), Binding("b"), IntV(1)}, MaxKeys)
    IN  {Dict(q) : q \in items} \cup {OrderedDict(q) : q \in items}

\* dict values: their iteration order plays no part in a match, so one order
\* stands for each
MapValues ==
    {Dict(q) : q \in {r \in MapItems({IntV(1), IntV(2)}, Len(MapKeys)) :
        \A i, j \in 1..Len(r) : i < j =>
            \E a, b \in 1..Len(MapKeys) :
                a < b /\ MapKeys[a] = r[i][1] /\ MapKeys[b] = r[j][1]}}
      \cup {IntV(1), ListV(<<IntV(1)>>), StrV("k"), Class("Cons")}

\* patterns that are a Binding, a string, a number or a compiled regular
\* expression, and the values they are matched against
AtomPatterns ==
    {Binding("a"), BindingRest("r"), Binding(""), StrV("x"), StrV("xy"),
     IntV(1), Regex(<< <<"g", "x">> >>)}

AtomValues ==
    {IntV(1), IntV(2), StrV("x"), StrV("xy"), ListV(<<StrV("x"), StrV("y")>>)}

\* the values passed to the constructor of a variant
ArgValues ==
    {IntV(1), StrV("x"), Binding("a"), BindingRest("r"), Binding(""),
     Class("Nil"), NilV, Object("Singleton"), Cons(IntV(1), NilV),
     Inst("Cons", <<NilV>>), Sub(IntV(1))}

\* the patterns of the cases and the values dispatched
CasePatterns ==
    {Binding("a"), IntV(1), ListV(<<Binding("a"), Binding("b")>>),
     Regex(<< <<"g", "x">> >>), Class("Cons"), Cons(Binding("a"), NilV),
     Dict(<< <<StrV("k"), Binding("a")>> >>)}

CaseTables ==
    {[i \in 1..Len(q) |->
        [name |-> i, argcount |-> q[i][2], pattern |-> q[i][1]]] :
     q \in SeqsUpTo(CasePatterns \X {1, 2}, MaxCases)}

DispatchValues ==
    {IntV(1), IntV(2), StrV("x"), StrV("y"), ListV(<<IntV(1), IntV(2)>>),
     NilV, Cons(IntV(1), NilV), Cons(IntV(2), Cons(IntV(1), NilV)),
     Dict(<< <<StrV("k"), IntV(1)>> >>)}

(***************************************************************************)
(* Specifications                                                          *)
(***************************************************************************)
\* adt.py imported, no class statement of the program run yet
Init ==
    /\ declared = {}
    /\ variants = [g \in SumTypes |-> <<>>]
    /\ fields = [c \in VariantNames |-> <<>>]
    /\ constraints = [c \in VariantNames |-> <<>>]
    /\ instance = [c \in SingletonClasses |-> 0]
    /\ objects = <<>>
    /\ returned = [c \in SingletonClasses |-> {}]
    /\ cases = NoCases
    /\ pc = "ready"
    /\ call = NoCall
    /\ outcome = NoOutcome

\* the class statements and the constructor calls in any order
Next ==
    \/ \E c \in SumTypes : DeclareSumType(c)
    \/ \E c \in VariantNames : DeclareVariant(c)
    \/ \E c \in SingletonClasses : NewSingleton(c)
    \/ \E c \in SumTypes : ConstructGeneric(c)
    \/ \E c \in VariantNames : ConstructSingleton(c)
    \/ \E c \in declared \cap VariantNames :
          \E args \in SeqsUpTo(ArgValues, Len(fields[c])) :
             pc = "ready" /\ ConstructVariant(c, args)
    \/ Continue

Spec == Init /\ [][Next]_vars

\* The state after the program's class statements (List, Nil, Cons, Sub,
\* Tree, Leaf, in this order) and the call Nil()
InitProgram ==
    /\ declared = ClassNames
    /\ variants = [g \in SumTypes |->
                    IF g = "List" THEN <<"Nil", "Cons", "Sub">> ELSE <<"Leaf">>]
    /\ fields = [c \in VariantNames |->
                    [i \in 1..Len(ClassBody(c)) |-> ClassBody(c)[i][1]]]
    /\ constraints = [c \in VariantNames |->
                    [i \in 1..Len(ClassBody(c)) |-> ClassBody(c)[i][2]]]
    /\ instance = [c \in SingletonClasses |->
                    IF c = "Anything" THEN 1 ELSE IF c = "Nil" THEN 2 ELSE 0]
    /\ objects = <<"Anything", "Nil">>
    /\ returned = [c \in SingletonClasses |-> IF c = "Nil" THEN {2} ELSE {}]
    /\ cases = NoCases
    /\ pc = "ready"
    /\ call = NoCall
    /\ outcome = NoOutcome

\* match called: variant patterns, sequence patterns, mapping patterns,
\* patterns without parts
MatchNext ==
    \/ /\ pc = "ready"
       /\ \E pattern \in AdtPatterns : \E value \in AdtValues :
             Match(pattern, value)
    \/ /\ pc = "ready"
       /\ \E pattern \in SeqPatterns : \E value \in SeqValues :
             Match(pattern, value)
    \/ /\ pc = "ready"
       /\ \E pattern \in MapPatterns : \E value \in MapValues :
             Match(pattern, value)
    \/ /\ pc = "ready"
       /\ \E pattern \in AtomPatterns : \E value \in AtomValues :
             Match(pattern, value)
    \/ Continue

MatchSpec == InitProgram /\ [][MatchNext]_vars

\* a MatchCases subclass defined, then called on values
DispatchNext ==
    \/ /\ pc = "ready" /\ ~cases.defined
       /\ \E table \in CaseTables : DefineCases(table)
    \/ \E value \in DispatchValues : Dispatch(value)
    \/ Continue

DispatchSpec == InitProgram /\ [][DispatchNext]_vars

(***************************************************************************)
(* Properties of the dispatcher (DispatchSpec)                             *)
(***************************************************************************)
\* match(pattern, value) returns captures
Succeeds(pattern, value) == match(pattern, value).st = "return"

\* the dispatcher has just been called on call.value
Dispatched == pc = "done" /\ call.op = "dispatch"

\* the cases whose pattern matches the dispatched value
MatchingCases ==
    {i \in 1..Len(cases.list) : Succeeds(cases.list[i].pattern, call.value)}

FirstMatching == CHOOSE i \in MatchingCases : \A j \in MatchingCases : i <= j

\* the dispatcher raised CasesExhausted
Exhausted == outcome.st = "raise" /\ outcome.exc = "CasesExhausted"

\* C1: when some case's pattern matches the dispatched value, exactly one
\* action is invoked, that of the first such case in declaration order, and
\* the dispatch returns its result.
C1_FirstMatchWins ==
    (Dispatched /\ MatchingCases # {}) =>
        /\ outcome.st = "return"
        /\ outcome.invoked = <<cases.list[FirstMatching].name>>
        /\ outcome.value.by = cases.list[FirstMatching].name

\* C2: the dispatch raises CasesExhausted if and only if no case's pattern
\* matches the value, and then no action has been invoked.
C2_ExhaustedIffNoMatch ==
    Dispatched =>
        /\ Exhausted <=> (MatchingCases = {})
        /\ Exhausted => outcome.invoked = <<>>

\* C3: a mismatch never leaves the dispatcher as MatchFailed or as any other
\* error: a dispatch returns an action's result or raises CasesExhausted.
C3_OnlyCasesExhausted ==
    Dispatched => (outcome.st = "return" \/ outcome.exc = "CasesExhausted")

(***************************************************************************)
(* Properties of match (MatchSpec)                                         *)
(***************************************************************************)
\* match has just been called on call.pattern and call.value
MatchCalled == pc = "done" /\ call.op = "match"

\* the names are pairwise distinct and namedtuple accepts each as a field name
DistinctValidNames(names) ==
    /\ \A i \in 1..Len(names) : ~BadFieldName(names[i])
    /\ \A i, j \in 1..Len(names) : i # j => names[i] # names[j]

\* the captures of match(ps[i], vs[i]) for i = 1..n, one after the other
RECURSIVE PartCaptures(_, _, _)
PartCaptures(ps, vs, n) ==
    IF n = 0 THEN <<>>
    ELSE PartCaptures(ps, vs, n - 1) \o match(ps[n], vs[n]).value.binds

\* match(ps[i], vs[i]) succeeds for i = 1..n
PartsMatch(ps, vs, n) == \A i \in 1..n : Succeeds(ps[i], vs[i])

\* the pattern is a bare variant class
CtorMatch ==
    MatchCalled /\ call.pattern.k = "class" /\ call.pattern.c \in VariantNames

InstMatch == MatchCalled /\ call.pattern.k = "adt"

ScenarioPattern ==
    Cons(Binding("a"), Cons(Binding("b"), Binding("c")))

SeqMatch ==
    /\ MatchCalled
    /\ call.pattern.k = "list"
    /\ \A i \in 1..Len(call.pattern.items) : ~IsBindingRest(call.pattern.items[i])

\* iterating the value yields its elements
Iterable(v) == v.k \in {"list", "dict", "adt", "str"}

RestMatch ==
    /\ MatchCalled
    /\ call.pattern.k = "list"
    /\ Len(call.pattern.items) > 0
    /\ \A i \in 1..Len(call.pattern.items) :
          IsBindingRest(call.pattern.items[i]) <=> (i = Len(call.pattern.items))
    /\ Iterable(call.value)

\* C7: for [p1..pn, rest] and a value of m elements: when m >= n and each
\* p_i matches the i-th element (the names bound being distinct and valid),
\* the match succeeds and rest is bound to exactly the elements n+1..m in
\* order, the empty sequence when m = n; when m < n the match fails.
C7_RestIsTail ==
    RestMatch =>
        LET seq == call.pattern.items
            elems == Iter(call.value)
            n == Len(seq) - 1
            m == Len(elems)
        IN  IF m < n THEN outcome.st = "raise" /\ outcome.exc = "MatchFailed"
            ELSE LET captures ==
                         PartCaptures(seq, elems, n)
                           \o Binding_bind(seq[n + 1],
                                           Generator(SubSeq(elems, n + 1, m)))
                 IN  (PartsMatch(seq, elems, n)
                        /\ DistinctValidNames(Names(captures)))
                       => outcome = Returned(CapturedValues(captures))

\* the pattern is a mapping
MapMatch == MatchCalled /\ call.pattern.k = "dict"

\* C8: a mapping pattern (binding pairwise distinct valid names) matches if
\* and only if the value is map-like, has every key of the pattern and the
\* subpattern at each key matches the value's entry; a key only the value
\* has contributes no capture; a map-like value lacking a pattern key raises
\* MatchFailed.
C8_MappingPartial ==
    MapMatch =>
        LET P == call.pattern
            v == call.value
            keys == Keys(P)
            all == /\ IsMapLike(v)
                   /\ \A i \in 1..Len(keys) :
                         /\ HasKey(v, keys[i])
                         /\ Succeeds(GetItem(P, keys[i]), GetItem(v, keys[i]))
            binding == SelectSeq(P.entries,
                                 LAMBDA kv : IsBinding(kv[2]) /\ kv[2].s # "")
            names == [i \in 1..Len(binding) |-> binding[i][2].s]
        IN  DistinctValidNames(names) =>
            /\ (outcome.st = "return") <=> all
            /\ all => /\ Len(outcome.value.binds) = Len(names)
                      /\ \A i \in 1..Len(binding) :
                            \E j \in 1..Len(names) :
                               outcome.value.binds[j] =
                                  <<names[i], GetItem(v, binding[i][1])>>
            /\ (IsMapLike(v) /\ \E i \in 1..Len(keys) : ~HasKey(v, keys[i]))
                  => outcome.st = "raise" /\ outcome.exc = "MatchFailed"

(***************************************************************************)
(* Properties of construction (Spec)                                       *)
(***************************************************************************)
\* a variant has just been called with call.args
Constructed == pc = "done" /\ call.op = "new" /\ call.cls \in VariantNames

\* the value satisfies the constraint: Anything always, Require(T) when the
\* value is an instance of T or of a subtype of T
Satisfies(constraint, value) ==
    \/ constraint = Anything
    \/ /\ constraint.c = "Require"
       /\ \/ constraint.dtype = "int" /\ value.k = "int"
          \/ /\ constraint.dtype \in ClassNames
             /\ value.k = "adt"
             /\ constraint.dtype \in Ancestors(value.c)

\* C9: constructing an instance of a variant succeeds if and only if every
\* field's value is a Binding (of any kind) or satisfies the field's
\* constraint; otherwise the call raises the constraint's TypeError and no
\* instance is returned.
C9_ConstraintCheck ==
    Constructed =>
        LET cls == call.cls
            args == call.args
            accepted == \A i \in 1..Len(fields[cls]) :
                            \/ args[i].k \in {"Binding", "BindingRest"}
                            \/ Satisfies(constraints[cls][i], args[i])
        IN  IF accepted
            THEN /\ outcome.st = "return"
                 /\ Len(fields[cls]) > 0 => outcome.value = Inst(cls, args)
            ELSE outcome = Raised("TypeError", "expected type")

\* a Cons built of a wildcard and a rest-binding, and so accepted although
\* the rest-binding is no List
C9_Witness ==
    /\ Constructed
    /\ call.cls = "Cons"
    /\ call.args = <<Binding(""), BindingRest("r")>>
    /\ outcome = Returned(Cons(Binding(""), BindingRest("r")))

\* C10: every construction call of a variant without fields returns the
\* identical instance: over any sequence of calls the class has returned at
\* most one object, the one the call just made returned.
C10_Singleton ==
    \A cls \in declared \cap VariantNames :
        Len(fields[cls]) = 0 =>
            /\ Cardinality(returned[cls]) <= 1
            /\ (Constructed /\ call.cls = cls) => returned[cls] = {outcome.id}

\* Nil() called again after another object was created: it returns the Nil
\* object of its first call
C10_Witness ==
    /\ Constructed
    /\ call.cls = "Nil"
    /\ returned["Nil"] = {outcome.id}
    /\ objects[outcome.id] = "Nil"
    /\ outcome.id < Len(objects)

(***************************************************************************)
(* Properties of Singleton and of the class statements (Spec)              *)
(***************************************************************************)
\* C11: over any sequence of instantiations of Singleton and of the classes
\* derived from it, no object is returned by the constructors of two
\* different classes.
C11_DistinctPerClass ==
    \A c1, c2 \in SingletonClasses :
        c1 # c2 => returned[c1] \cap returned[c2] = {}


\* the sum type each variant of the program is declared for
DeclaredFor(c) == IF c = "Leaf" THEN "Tree" ELSE "List"

\* the variants of sum type g among the classes declared so far
DeclaredVariants(g) == {c \in declared \cap VariantNames : DeclaredFor(c) = g}

\* C12: the variant list of each sum type holds exactly the variants declared
\* for it, each once; a new sum type starts with an empty list; declaring a
\* variant appends it to the list of its own sum type and leaves the other
\* lists alone; no other step (construction included) changes any list.
C12_VariantLists ==
    /\ [](\A g \in declared \cap SumTypes :
            /\ {variants[g][i] : i \in 1..Len(variants[g])} = DeclaredVariants(g)
            /\ Len(variants[g]) = Cardinality(DeclaredVariants(g)))
    /\ [][ /\ \A g \in (declared' \ declared) \cap SumTypes :
                /\ variants'[g] = <<>>
                /\ \A h \in SumTypes \ {g} : variants'[h] = variants[h]
           /\ \A c \in (declared' \ declared) \cap VariantNames :
                /\ variants'[DeclaredFor(c)] = Append(variants[DeclaredFor(c)], c)
                /\ \A h \in SumTypes \ {DeclaredFor(c)} : variants'[h] = variants[h]
           /\ declared' = declared => variants' = variants ]_vars

\* both sum types hold their variants, Cons declared before Nil, and a
\* constructor call has returned since
C12_Witness ==
    /\ variants["List"] = <<"Cons", "Nil", "Sub">>
    /\ variants["Tree"] = <<"Leaf">>
    /\ pc = "done"
    /\ outcome.st = "return"


(***************************************************************************)
(* Properties relating BindingExtractor and MatchVisitor (MatchSpec)       *)
(***************************************************************************)
\* the names in a sequence of names or of captures
NameSet(names) == {names[i] : i \in 1..Len(names)}

\* C13: whenever match(pattern, value) succeeds, the names of its captures
\* are, as a set, the names extract_bindings(pattern) yields.
C13_SameNames ==
    (MatchCalled /\ outcome.st = "return") =>
        LET r == extract_bindings(call.pattern, "BindingExtractor") IN
        /\ r.st = "ok"
        /\ NameSet(r.binds) = NameSet(Names(outcome.value.binds))


\* a sequence pattern with a BindingRest that is not its last element (more
\* than one BindingRest puts one of them before the last element)
MisplacedRest(pattern) ==
    /\ pattern.k = "list"
    /\ \E i \in 1..Len(pattern.items) :
        IsBindingRest(pattern.items[i]) /\ i < Len(pattern.items)

\* C14: match never returns captures for a sequence pattern whose BindingRest
\* is not last or that holds more than one BindingRest: the call raises.
C14_MisplacedRestRejected ==
    (MatchCalled /\ MisplacedRest(call.pattern)) => outcome.st = "raise"


\* C15: for a mapping pattern that matches, extract_bindings yields the names
\* in the order of the captures, the key order MatchVisitor.mapping uses.
C15_MappingSameOrder ==
    (MatchCalled /\ dispatch(call.pattern) = "mapping" /\ outcome.st = "return") =>
        LET r == extract_bindings(call.pattern, "BindingExtractor") IN
        /\ r.st = "ok"
        /\ r.binds = Names(outcome.value.binds)


(***************************************************************************)
(* Properties of the classification of patterns (MatchSpec)                *)
(***************************************************************************)
\* whether a pattern is of the kind a category is for
Applies(category, pattern) ==
    CASE category = "binding" -> IsBinding(pattern)
      [] category = "generic type" -> pattern.k = "class" /\ pattern.c \in SumTypes
      [] category = "adt_constructor" ->
            pattern.k = "class" /\ pattern.c \in VariantNames
      [] category = "adt_instance" -> pattern.k = "adt"
      [] category = "mapping" -> pattern.k = "dict"
      [] category = "sequence" ->
            pattern.k \in {"list", "generator", "dict", "adt", "str", "Binding",
                           "BindingRest"}
      [] category = "regexp" -> pattern.k = "regex"
      [] category = "string" -> pattern.k \in {"str", "Binding", "BindingRest"}
      [] category = "literal" -> TRUE

\* the first category of a priority list that applies to the pattern
RECURSIVE FirstApplicable(_, _, _)
FirstApplicable(priority, pattern, i) ==
    IF Applies(priority[i], pattern) THEN priority[i]
    ELSE FirstApplicable(priority, pattern, i + 1)

\* the handler a category stands for: a string is matched as a literal and
\* a sum type itself is refused
HandlerOf(category) ==
    CASE category = "string" -> "literal"
      [] category = "generic type" -> "TypeError"
      [] OTHER -> category

\* C16 as stated: every pattern is classified by the priority binding, variant
\* class, variant instance, mapping, sequence, regular expression, literal.
C16_ClaimedPriority ==
    MatchCalled =>
        dispatch(call.pattern) =
            FirstApplicable(<<"binding", "adt_constructor", "adt_instance",
                              "mapping", "sequence", "regexp", "literal">>,
                            call.pattern, 1)

\* C16: every pattern is classified by the priority binding, sum type itself
\* (refused with TypeError), variant class, variant instance, regular
\* expression, string (a literal), mapping, sequence, literal; a pattern both
\* map-like and iterable is a mapping, a Binding is never a literal, and the
\* extractor refuses a pattern exactly when the matcher's classification does.
C16_Priority ==
    MatchCalled =>
        LET p == call.pattern
            handler == dispatch(p)
        IN  /\ handler =
                 HandlerOf(FirstApplicable(
                     <<"binding", "generic type", "adt_constructor",
                       "adt_instance", "regexp", "string", "mapping",
                       "sequence", "literal">>, p, 1))
            /\ (Applies("mapping", p) /\ Applies("sequence", p)) => handler = "mapping"
            /\ IsBinding(p) => handler = "binding"
            /\ handler = "TypeError" <=>
                 /\ outcome.st = "raise" /\ outcome.exc = "TypeError"
                 /\ outcome.msg = "generic type"
            /\ handler = "TypeError" <=>
                 extract_bindings(p, "BindingExtractor").st = "raise"

\* the string pattern "xy" was matched against the list of its two characters
\* and failed: it is a literal, not a sequence
C16_Witness ==
    /\ MatchCalled
    /\ call.pattern.k = "str"
    /\ call.pattern.s = "xy"
    /\ call.value.k = "list"
    /\ Len(call.value.items) = 2
    /\ outcome.st = "raise"
    /\ outcome.exc = "MatchFailed"

=============================================================================
